---- MODULE Spec2Model ----
(***************************************************************************)
(* The three verify-slip serverless handlers of VerdeyBackend:             *)
(*   "placeholder"  src/Api/verify-slip.js   (randomised stand-in checks)  *)
(*   "sightengine"  src/unnamed/part_000:12  (external detection service)  *)
(*   "canvas"       src/unnamed/part_000:159 (try/catch analyzers)         *)
(* One request is served at a time; each handler is followed statement by  *)
(* statement.  Fractions (Math.random(), detection scores) are carried in  *)
(* hundredths, so 0.7 is 70 and Math.random() ranges over 0..99.           *)
(***************************************************************************)
EXTENDS Integers, Sequences, FiniteSets, TLC

VARIABLES
    handlerKind,      \* which deployment serves the request
    pc,               \* position of the handler in its code
    req,              \* the request: method and where an image is carried
    env,              \* process.env: the Sightengine credentials
    data,             \* parsed Sightengine response (sightengine handler)
    findings,         \* const findings = []
    legitimacyScore,  \* let legitimacyScore = 100
    metadataCheck,    \* const metadataCheck
    compressionCheck, \* const compressionCheck
    fontCheck,        \* const fontCheck
    templateCheck,    \* const templateCheck
    detectedSportsbook, \* const detectedSportsbook (sightengine handler)
    invocations,      \* how many analyzer calls this request has made
    threw,            \* analyzers whose try body failed in this request
    response          \* what res.status(..).json(..) sent

vars == <<handlerKind, pc, req, env, data, findings, legitimacyScore,
          metadataCheck, compressionCheck, fontCheck, templateCheck,
          detectedSportsbook, invocations, threw, response>>

----------------------------------------------------------------------------
(* Bounds and input domains *)

MaxFaces == 2

HandlerKinds == {"placeholder", "sightengine", "canvas"}
Methods == {"POST", "GET"}

\* Math.random() is in [0, 1): hundredths in 0..99.  The values straddle every
\* threshold the code compares with (0.3, 0.7, 0.8) and fall in every quarter
\* and every fifth of the range, so each index of both sportsbook lists occurs.
RandomValues == {0, 20, 30, 31, 50, 60, 70, 71, 80, 81, 99}

\* data.type.ai_generated, a probability in [0, 1], in hundredths
AiScores == {0, 1, 40, 41, 70, 71, 100}

\* data.quality.score, in [0, 1], in hundredths
QualityScores == {0, 49, 50, 100}

Undefined == "undefined"

----------------------------------------------------------------------------
(* JavaScript helpers *)

MathMax(a, b) == IF a >= b THEN a ELSE b
MathMin(a, b) == IF a <= b THEN a ELSE b

\* Math.round on a value that is already an integer
MathRound(x) == x

\* Math.floor(Math.random() * n) with Math.random() = r / 100
RandomIndex(r, n) == (r * n) \div 100

\* x || "Unknown" : undefined and the empty string are falsy
OrUnknown(x) == IF x \in {Undefined, ""} THEN "Unknown" ELSE x

Finding(category, status, detail) ==
    [category |-> category, status |-> status, detail |-> detail]

NoCheck == [finding |-> Finding("", "", ""), penalty |-> 0,
            detectedSportsbook |-> Undefined, called |-> FALSE]

Check(finding, penalty, sportsbook) ==
    [finding |-> finding, penalty |-> penalty,
     detectedSportsbook |-> sportsbook, called |-> TRUE]

NoResponse == [status |-> 0, verdict |-> "", confidence |-> 0,
               findings |-> <<>>, sportsbook |-> "", error |-> "",
               message |-> ""]

NoData == [hasAi |-> FALSE, aiGenerated |-> 0,
           hasQuality |-> FALSE, hasQualityScore |-> FALSE, qualityScore |-> 0,
           hasFaces |-> FALSE, faces |-> 0]

----------------------------------------------------------------------------
(* Analyzers of the placeholder handler, src/Api/verify-slip.js:62-160.    *)
(* Each argument r is the value of one Math.random() call.                 *)

checkMetadata(r) ==
    LET hasEditingSoftware == r > 80
    IN  IF hasEditingSoftware
        THEN Check(Finding("Metadata", "negative",
                           "Image shows signs of editing software usage."),
                   30, Undefined)
        ELSE Check(Finding("Metadata", "neutral",
                           "No strong metadata indicators found."),
                   0, Undefined)

\* the irregular-compression branch forgets its deduction
checkCompressionNoPenalty(r) ==
    LET hasIrregularCompression == r > 70
    IN  IF hasIrregularCompression
        THEN Check(Finding("Compression Anomaly", "negative",
                           "Irregular compression detected near critical regions."),
                   0, Undefined)
        ELSE Check(Finding("Compression", "positive",
                           "Compression artifacts appear uniform across image."),
                   0, Undefined)

checkCompression(r) ==
    LET hasIrregularCompression == r > 70
    IN  IF hasIrregularCompression
        THEN Check(Finding("Compression Anomaly", "negative",
                           "Irregular compression detected near critical regions."),
                   25, Undefined)
        ELSE Check(Finding("Compression", "positive",
                           "Compression artifacts appear uniform across image."),
                   0, Undefined)

checkFonts(r) ==
    LET hasInconsistentFonts == r > 80
    IN  IF hasInconsistentFonts
        THEN Check(Finding("Font Mismatch", "negative",
                           "Multiple font styles detected where uniform font is expected."),
                   20, Undefined)
        ELSE Check(Finding("Font Consistency", "positive",
                           "Fonts appear consistent with known sportsbook typography."),
                   0, Undefined)

knownSportsbooks == <<"FanDuel", "DraftKings", "BetMGM", "Caesars">>

\* template drift deducts 15 (the image-quality deduction) instead of 25
checkTemplateLightDrift(r1, r2) ==
    LET detected == knownSportsbooks[RandomIndex(r1, Len(knownSportsbooks)) + 1]
        matchesTemplate == r2 > 30
    IN  IF matchesTemplate
        THEN Check(Finding("Layout Match", "positive",
                           "Slip layout matches known " \o detected \o " template."),
                   0, detected)
        ELSE Check(Finding("Template Drift", "negative",
                           "Spacing and layout differ from known sportsbook templates."),
                   15, "Unknown")

checkTemplate(r1, r2) ==
    LET detected == knownSportsbooks[RandomIndex(r1, Len(knownSportsbooks)) + 1]
        matchesTemplate == r2 > 30
    IN  IF matchesTemplate
        THEN Check(Finding("Layout Match", "positive",
                           "Slip layout matches known " \o detected \o " template."),
                   0, detected)
        ELSE Check(Finding("Template Drift", "negative",
                           "Spacing and layout differ from known sportsbook templates."),
                   25, "Unknown")

----------------------------------------------------------------------------
(* Analyzers of the canvas handler, src/unnamed/part_000:215-377.  Each    *)
(* body is wrapped in try/catch; `fails` says that the try body (the image *)
(* analysis the comments describe) threw, so the catch block answers.      *)

\* const exif = {}  : exif.Software is undefined
exifSoftware == Undefined

checkMetadataCanvas(fails) ==
    LET hasEditingSoftware ==
            /\ exifSoftware # Undefined
            /\ exifSoftware \in {"Photoshop", "GIMP"}
    IN  IF fails
        THEN Check(Finding("Metadata", "neutral",
                           "Metadata analysis inconclusive."),
                   0, Undefined)
        ELSE IF hasEditingSoftware
        THEN Check(Finding("Metadata", "negative",
                           "Image shows signs of editing software usage."),
                   30, Undefined)
        ELSE Check(Finding("Metadata", "neutral",
                           "No strong metadata indicators found."),
                   0, Undefined)

checkCompressionCanvas(fails, r) ==
    LET hasIrregularCompression == r > 70
    IN  IF fails
        THEN Check(Finding("Compression", "neutral",
                           "Compression analysis inconclusive."),
                   5, Undefined)
        ELSE IF hasIrregularCompression
        THEN Check(Finding("Compression Anomaly", "negative",
                           "Irregular compression detected near critical regions (amounts/odds)."),
                   25, Undefined)
        ELSE Check(Finding("Compression", "positive",
                           "Compression artifacts appear uniform across image."),
                   0, Undefined)

\* the catch block reports the failure as a font mismatch
checkFontsCanvasCatchNegative(fails, r) ==
    LET hasInconsistentFonts == r > 80
    IN  IF fails \/ hasInconsistentFonts
        THEN Check(Finding("Font Mismatch", "negative",
                           "Multiple font styles detected where uniform font is expected."),
                   20, Undefined)
        ELSE Check(Finding("Font Consistency", "positive",
                           "Fonts appear consistent with known sportsbook typography."),
                   0, Undefined)

checkFontsCanvas(fails, r) ==
    LET hasInconsistentFonts == r > 80
    IN  IF fails
        THEN Check(Finding("Font Analysis", "neutral",
                           "Font analysis inconclusive."),
                   5, Undefined)
        ELSE IF hasInconsistentFonts
        THEN Check(Finding("Font Mismatch", "negative",
                           "Multiple font styles detected where uniform font is expected."),
                   20, Undefined)
        ELSE Check(Finding("Font Consistency", "positive",
                           "Fonts appear consistent with known sportsbook typography."),
                   0, Undefined)

checkTemplateCanvas(fails, r1, r2) ==
    LET detected == knownSportsbooks[RandomIndex(r1, Len(knownSportsbooks)) + 1]
        matchesTemplate == r2 > 30
    IN  IF fails
        THEN Check(Finding("Template Matching", "neutral",
                           "Template matching inconclusive."),
                   10, "Unknown")
        ELSE IF matchesTemplate
        THEN Check(Finding("Layout Match", "positive",
                           "Slip layout matches known " \o detected \o " template."),
                   0, detected)
        ELSE Check(Finding("Template Drift", "negative",
                           "Spacing and layout differ from known sportsbook templates."),
                   25, "Unknown")

----------------------------------------------------------------------------
(* Aggregation shared by the handlers *)

\* legitimacyScore += check.penalty
DeductAdds(score, penalty) == score + penalty

\* legitimacyScore -= check.penalty
Deduct(score, penalty) == score - penalty

\* const confidence = Math.max(0, Math.min(100, legitimacyScore))
Confidence(score) == MathMax(0, MathMin(100, score))

\* confidence > 70 instead of >= 70
VerdictStrict(confidence) ==
    IF confidence > 70 THEN "Likely Legitimate" ELSE "Likely Fabricated"

\* const verdict = confidence >= 70 ? "Likely Legitimate" : "Likely Fabricated"
Verdict(confidence) ==
    IF confidence >= 70 THEN "Likely Legitimate" ELSE "Likely Fabricated"

\* Math.round(confidence * 100), as line 66 does with the 0..1 aiScore
RoundedConfidencePercent(confidence) == MathRound(confidence * 100)

\* confidence: Math.round(confidence)
RoundedConfidence(confidence) == MathRound(confidence)

\* res.status(200).json({ verdict, confidence, findings, sportsbook })
Report(score, fs, sportsbook) ==
    LET confidence == Confidence(score)
    IN  [status |-> 200, verdict |-> Verdict(confidence),
         confidence |-> RoundedConfidence(confidence),
         findings |-> fs, sportsbook |-> sportsbook,
         error |-> "", message |-> ""]

\* catch (error) { res.status(500).json({ error, message }) }
VerificationFailed(message) ==
    [NoResponse EXCEPT !.status = 500, !.error = "Verification failed",
                       !.message = message]

----------------------------------------------------------------------------
(* State after deployment: no request is being served *)

Requests ==
    { r \in [method : Methods, hasBody : BOOLEAN, bodyFile : BOOLEAN,
             bodyImage : BOOLEAN, filesFile : BOOLEAN] :
        (r.bodyFile \/ r.bodyImage) => r.hasBody }

Environments == [apiUser : BOOLEAN, apiSecret : BOOLEAN]

Init ==
    /\ handlerKind = "placeholder"
    /\ pc = "idle"
    /\ req = [method |-> "GET", hasBody |-> FALSE, bodyFile |-> FALSE,
              bodyImage |-> FALSE, filesFile |-> FALSE]
    /\ env = [apiUser |-> FALSE, apiSecret |-> FALSE]
    /\ data = NoData
    /\ findings = <<>>
    /\ legitimacyScore = 0
    /\ metadataCheck = NoCheck
    /\ compressionCheck = NoCheck
    /\ fontCheck = NoCheck
    /\ templateCheck = NoCheck
    /\ detectedSportsbook = Undefined
    /\ invocations = 0
    /\ threw = {}
    /\ response = NoResponse

\* A request reaches one of the deployed handlers
Receive ==
    /\ pc = "idle"
    /\ \E k \in HandlerKinds, r \in Requests, e \in Environments :
          /\ handlerKind' = k
          /\ req' = r
          /\ env' = e
    /\ pc' = "entry"
    /\ data' = NoData
    /\ findings' = <<>>
    /\ legitimacyScore' = 0
    /\ metadataCheck' = NoCheck
    /\ compressionCheck' = NoCheck
    /\ fontCheck' = NoCheck
    /\ templateCheck' = NoCheck
    /\ detectedSportsbook' = Undefined
    /\ invocations' = 0
    /\ threw' = {}
    /\ response' = NoResponse

\* The response has been sent and the invocation is over; nothing of it is
\* kept for the next request.
InvocationEnds ==
    /\ pc = "done"
    /\ pc' = "idle"
    /\ response' = NoResponse
    /\ data' = NoData
    /\ findings' = <<>>
    /\ legitimacyScore' = 0
    /\ metadataCheck' = NoCheck
    /\ compressionCheck' = NoCheck
    /\ fontCheck' = NoCheck
    /\ templateCheck' = NoCheck
    /\ detectedSportsbook' = Undefined
    /\ invocations' = 0
    /\ threw' = {}
    /\ UNCHANGED <<handlerKind, req, env>>

\* if (req.method !== 'POST') return res.status(405).json(...)
MethodNotAllowed ==
    /\ pc = "entry"
    /\ req.method # "POST"
    /\ response' = [NoResponse EXCEPT !.status = 405,
                                      !.error = "Method not allowed"]
    /\ pc' = "done"
    /\ UNCHANGED <<handlerKind, req, env, data, findings, legitimacyScore,
                   metadataCheck, compressionCheck, fontCheck, templateCheck,
                   detectedSportsbook, invocations, threw>>

\* the handler's catch block answers 500
Throw(message) ==
    /\ response' = VerificationFailed(message)
    /\ pc' = "done"
    /\ UNCHANGED <<handlerKind, req, env, data, findings, legitimacyScore,
                   metadataCheck, compressionCheck, fontCheck, templateCheck,
                   detectedSportsbook, invocations, threw>>

\* findings.push(check.finding); legitimacyScore -= check.penalty
PushCheck(score, check) ==
    /\ findings' = Append(findings, check.finding)
    /\ legitimacyScore' = Deduct(score, check.penalty)
    /\ invocations' = invocations + 1

----------------------------------------------------------------------------
(* Placeholder handler, src/Api/verify-slip.js:12-60 *)

PlaceholderMetadata ==
    /\ pc = "entry"
    /\ handlerKind = "placeholder"
    /\ req.method = "POST"
    /\ \E r \in RandomValues :
          LET check == checkMetadata(r)
          IN  /\ metadataCheck' = check
              /\ findings' = Append(<<>>, check.finding)
              /\ legitimacyScore' = Deduct(100, check.penalty)
              /\ invocations' = invocations + 1
    /\ pc' = "p_compression"
    /\ UNCHANGED <<handlerKind, req, env, data, compressionCheck, fontCheck,
                   templateCheck, detectedSportsbook, threw, response>>

PlaceholderCompression ==
    /\ pc = "p_compression"
    /\ \E r \in RandomValues :
          LET check == checkCompression(r)
          IN  /\ compressionCheck' = check
              /\ PushCheck(legitimacyScore, check)
    /\ pc' = "p_fonts"
    /\ UNCHANGED <<handlerKind, req, env, data, metadataCheck, fontCheck,
                   templateCheck, detectedSportsbook, threw, response>>

PlaceholderFonts ==
    /\ pc = "p_fonts"
    /\ \E r \in RandomValues :
          LET check == checkFonts(r)
          IN  /\ fontCheck' = check
              /\ PushCheck(legitimacyScore, check)
    /\ pc' = "p_template"
    /\ UNCHANGED <<handlerKind, req, env, data, metadataCheck,
                   compressionCheck, templateCheck, detectedSportsbook,
                   threw, response>>

PlaceholderTemplate ==
    /\ pc = "p_template"
    /\ \E r1 \in RandomValues, r2 \in RandomValues :
          LET check == checkTemplate(r1, r2)
          IN  /\ templateCheck' = check
              /\ PushCheck(legitimacyScore, check)
    /\ pc' = "p_respond"
    /\ UNCHANGED <<handlerKind, req, env, data, metadataCheck,
                   compressionCheck, fontCheck, detectedSportsbook,
                   threw, response>>

PlaceholderRespond ==
    /\ pc = "p_respond"
    /\ response' = Report(legitimacyScore, findings,
                          OrUnknown(templateCheck.detectedSportsbook))
    /\ pc' = "done"
    /\ UNCHANGED <<handlerKind, req, env, data, findings, legitimacyScore,
                   metadataCheck, compressionCheck, fontCheck, templateCheck,
                   detectedSportsbook, invocations, threw>>

----------------------------------------------------------------------------
(* Canvas handler, src/unnamed/part_000:159-212 *)

\* const imageBuffer = req.body.file || Buffer.from(req.body.image, 'base64')
CanvasReadImage ==
    /\ pc = "entry"
    /\ handlerKind = "canvas"
    /\ req.method = "POST"
    /\ IF ~req.hasBody
       THEN Throw("Cannot read properties of undefined (reading 'file')")
       ELSE IF ~req.bodyFile /\ ~req.bodyImage
       THEN Throw("The first argument must be of type string or an instance of Buffer")
       ELSE /\ findings' = <<>>
            /\ legitimacyScore' = 100
            /\ pc' = "c_metadata"
            /\ UNCHANGED <<handlerKind, req, env, data, metadataCheck,
                           compressionCheck, fontCheck, templateCheck,
                           detectedSportsbook, invocations, threw, response>>

CanvasMetadata ==
    /\ pc = "c_metadata"
    /\ \E fails \in BOOLEAN :
          LET check == checkMetadataCanvas(fails)
          IN  /\ metadataCheck' = check
              /\ PushCheck(legitimacyScore, check)
              /\ threw' = IF fails THEN threw \cup {"metadata"} ELSE threw
    /\ pc' = "c_compression"
    /\ UNCHANGED <<handlerKind, req, env, data, compressionCheck, fontCheck,
                   templateCheck, detectedSportsbook, response>>

CanvasCompression ==
    /\ pc = "c_compression"
    /\ \E fails \in BOOLEAN, r \in RandomValues :
          LET check == checkCompressionCanvas(fails, r)
          IN  /\ compressionCheck' = check
              /\ PushCheck(legitimacyScore, check)
              /\ threw' = IF fails THEN threw \cup {"compression"} ELSE threw
    /\ pc' = "c_fonts"
    /\ UNCHANGED <<handlerKind, req, env, data, metadataCheck, fontCheck,
                   templateCheck, detectedSportsbook, response>>

CanvasFonts ==
    /\ pc = "c_fonts"
    /\ \E fails \in BOOLEAN, r \in RandomValues :
          LET check == checkFontsCanvas(fails, r)
          IN  /\ fontCheck' = check
              /\ PushCheck(legitimacyScore, check)
              /\ threw' = IF fails THEN threw \cup {"font"} ELSE threw
    /\ pc' = "c_template"
    /\ UNCHANGED <<handlerKind, req, env, data, metadataCheck,
                   compressionCheck, templateCheck, detectedSportsbook,
                   response>>

CanvasTemplate ==
    /\ pc = "c_template"
    /\ \E fails \in BOOLEAN, r1 \in RandomValues, r2 \in RandomValues :
          LET check == checkTemplateCanvas(fails, r1, r2)
          IN  /\ templateCheck' = check
              /\ PushCheck(legitimacyScore, check)
              /\ threw' = IF fails THEN threw \cup {"template"} ELSE threw
    /\ pc' = "c_respond"
    /\ UNCHANGED <<handlerKind, req, env, data, metadataCheck,
                   compressionCheck, fontCheck, detectedSportsbook, response>>

CanvasRespond ==
    /\ pc = "c_respond"
    /\ response' = Report(legitimacyScore, findings,
                          OrUnknown(templateCheck.detectedSportsbook))
    /\ pc' = "done"
    /\ UNCHANGED <<handlerKind, req, env, data, findings, legitimacyScore,
                   metadataCheck, compressionCheck, fontCheck, templateCheck,
                   detectedSportsbook, invocations, threw>>

----------------------------------------------------------------------------
(* Sightengine handler, src/unnamed/part_000:12-144 *)

\* the JSON bodies the detection service may answer with
SightData ==
    { d \in [hasAi : BOOLEAN, aiGenerated : AiScores,
             hasQuality : BOOLEAN, hasQualityScore : BOOLEAN,
             qualityScore : QualityScores,
             hasFaces : BOOLEAN, faces : 0..MaxFaces] :
        /\ ~d.hasAi => d.aiGenerated = 0
        /\ ~d.hasQuality => ~d.hasQualityScore
        /\ ~d.hasQualityScore => d.qualityScore = 0
        /\ ~d.hasFaces => d.faces = 0 }

knownSportsbooksSight ==
    <<"FanDuel", "DraftKings", "BetMGM", "Caesars", "Unknown">>

\* credentials, then the image: lines 19-40
SightPrepare ==
    /\ pc = "entry"
    /\ handlerKind = "sightengine"
    /\ req.method = "POST"
    /\ IF ~env.apiUser \/ ~env.apiSecret
       THEN Throw("Sightengine credentials not configured")
       ELSE IF (req.hasBody /\ req.bodyFile) \/ req.filesFile
       THEN /\ pc' = "s_fetch"
            /\ UNCHANGED <<handlerKind, req, env, data, findings,
                           legitimacyScore, metadataCheck, compressionCheck,
                           fontCheck, templateCheck, detectedSportsbook,
                           invocations, threw, response>>
       ELSE Throw("No image file provided")

\* await fetch(...) rejects, or answers with !response.ok: lines 43-50
SightFetchFails ==
    /\ pc = "s_fetch"
    /\ \/ Throw("fetch failed")
       \/ \E status \in {400, 500} :
             Throw("Sightengine API error: " \o ToString(status))

\* const data = await response.json(); const findings = []; ...: lines 52-56
SightFetch ==
    /\ pc = "s_fetch"
    /\ \E d \in SightData : data' = d
    /\ findings' = <<>>
    /\ legitimacyScore' = 100
    /\ pc' = "s_ai"
    /\ UNCHANGED <<handlerKind, req, env, metadataCheck, compressionCheck,
                   fontCheck, templateCheck, detectedSportsbook, invocations,
                   threw, response>>

\* if (data.type && data.type.ai_generated) { ... } : lines 59-83
\* a score of 0 is falsy, like an absent one
SightAiCheck ==
    /\ pc = "s_ai"
    /\ LET aiScore == data.aiGenerated
       IN  IF data.hasAi /\ aiScore # 0
           THEN IF aiScore > 70
                THEN /\ findings' = Append(findings,
                            Finding("AI Detection", "negative",
                                "High probability (" \o ToString(MathRound(aiScore))
                                \o "%) of AI-generated or heavily manipulated content."))
                     /\ legitimacyScore' = legitimacyScore - 40
                ELSE IF aiScore > 40
                THEN /\ findings' = Append(findings,
                            Finding("AI Detection", "negative",
                                "Moderate probability (" \o ToString(MathRound(aiScore))
                                \o "%) of digital manipulation detected."))
                     /\ legitimacyScore' = legitimacyScore - 25
                ELSE /\ findings' = Append(findings,
                            Finding("AI Detection", "positive",
                                "Low probability of AI generation or heavy manipulation."))
                     /\ UNCHANGED legitimacyScore
           ELSE UNCHANGED <<findings, legitimacyScore>>
    /\ invocations' = invocations + 1
    /\ pc' = "s_quality"
    /\ UNCHANGED <<handlerKind, req, env, data, metadataCheck,
                   compressionCheck, fontCheck, templateCheck,
                   detectedSportsbook, threw, response>>

\* if (data.quality) { ... } : lines 86-103
\* undefined < 0.5 is false
SightQualityCheck ==
    /\ pc = "s_quality"
    /\ IF data.hasQuality
       THEN IF data.hasQualityScore /\ data.qualityScore < 50
            THEN /\ findings' = Append(findings,
                        Finding("Image Quality", "negative",
                            "Poor image quality may indicate screenshot or re-photograph of original."))
                 /\ legitimacyScore' = legitimacyScore - 15
            ELSE /\ findings' = Append(findings,
                        Finding("Image Quality", "positive",
                            "Image quality consistent with direct capture."))
                 /\ UNCHANGED legitimacyScore
       ELSE UNCHANGED <<findings, legitimacyScore>>
    /\ invocations' = invocations + 1
    /\ pc' = "s_faces"
    /\ UNCHANGED <<handlerKind, req, env, data, metadataCheck,
                   compressionCheck, fontCheck, templateCheck,
                   detectedSportsbook, threw, response>>

\* if (data.faces && data.faces.length > 0) { ... } : lines 106-113
SightFacesCheck ==
    /\ pc = "s_faces"
    /\ IF data.hasFaces /\ data.faces > 0
       THEN /\ findings' = Append(findings,
                   Finding("Content Analysis", "negative",
                       "Unexpected content detected (faces found in image)."))
            /\ legitimacyScore' = legitimacyScore - 20
       ELSE UNCHANGED <<findings, legitimacyScore>>
    /\ invocations' = invocations + 1
    /\ pc' = "s_template"
    /\ UNCHANGED <<handlerKind, req, env, data, metadataCheck,
                   compressionCheck, fontCheck, templateCheck,
                   detectedSportsbook, threw, response>>

\* template matching placeholder: lines 116-123
SightTemplate ==
    /\ pc = "s_template"
    /\ \E r \in RandomValues :
          LET detected ==
                  knownSportsbooksSight[RandomIndex(r, Len(knownSportsbooksSight)) + 1]
          IN  /\ detectedSportsbook' = detected
              /\ findings' = Append(findings,
                     Finding("Layout Analysis", "neutral",
                         "Analyzing against " \o detected \o " template patterns."))
    /\ invocations' = invocations + 1
    /\ pc' = "s_respond"
    /\ UNCHANGED <<handlerKind, req, env, data, legitimacyScore,
                   metadataCheck, compressionCheck, fontCheck, templateCheck,
                   threw, response>>

\* lines 126-135 (rawData is the unchanged variable data)
SightRespond ==
    /\ pc = "s_respond"
    /\ response' = Report(legitimacyScore, findings, detectedSportsbook)
    /\ pc' = "done"
    /\ UNCHANGED <<handlerKind, req, env, data, findings, legitimacyScore,
                   metadataCheck, compressionCheck, fontCheck, templateCheck,
                   detectedSportsbook, invocations, threw>>

----------------------------------------------------------------------------

Next ==
    \/ Receive
    \/ InvocationEnds
    \/ MethodNotAllowed
    \/ PlaceholderMetadata
    \/ PlaceholderCompression
    \/ PlaceholderFonts
    \/ PlaceholderTemplate
    \/ PlaceholderRespond
    \/ CanvasReadImage
    \/ CanvasMetadata
    \/ CanvasCompression
    \/ CanvasFonts
    \/ CanvasTemplate
    \/ CanvasRespond
    \/ SightPrepare
    \/ SightFetchFails
    \/ SightFetch
    \/ SightAiCheck
    \/ SightQualityCheck
    \/ SightFacesCheck
    \/ SightTemplate
    \/ SightRespond

Spec == Init /\ [][Next]_vars

TypeOK ==
    /\ handlerKind \in HandlerKinds
    /\ legitimacyScore \in 0..100
    /\ invocations \in 0..4
    /\ Len(findings) <= 4

----------------------------------------------------------------------------
(* Properties *)

Legitimate == "Likely Legitimate"
Fabricated == "Likely Fabricated"

FourAnalyzerKinds == {"placeholder", "canvas"}

\* the four check results, in the order the handler runs them
Checks == <<metadataCheck, compressionCheck, fontCheck, templateCheck>>

Reported == response.status = 200

\* C1: every 200 response reports a confidence that is an integer in
\* [0, 100], whatever the analyzers found and deducted.
C1_ConfidenceInRange ==
    Reported => response.confidence \in 0..100

\* the deductions add up to 100 and the lower clamp edge is reported
C1_Witness ==
    /\ Reported
    /\ legitimacyScore = 0
    /\ response.confidence = 0

\* C2: the verdict is "Likely Legitimate" exactly when confidence >= 70 and
\* "Likely Fabricated" exactly when confidence < 70; there is no third value.
C2_VerdictThreshold ==
    Reported =>
        /\ response.verdict \in {Legitimate, Fabricated}
        /\ response.verdict = Legitimate <=> response.confidence >= 70
        /\ response.verdict = Fabricated <=> response.confidence < 70

\* the boundary value 70 is reported as legitimate
C2_Witness ==
    /\ Reported
    /\ response.confidence = 70
    /\ response.verdict = Legitimate

Orders4 == { p \in [1..4 -> 1..4] : \A i, j \in 1..4 : p[i] = p[j] => i = j }

\* 100 less the four penalties, taken in the order p, then clamped
ClampedAfter(p) ==
    LET raw == (((100 - Checks[p[1]].penalty) - Checks[p[2]].penalty)
                    - Checks[p[3]].penalty) - Checks[p[4]].penalty
    IN  IF raw < 0 THEN 0 ELSE IF raw > 100 THEN 100 ELSE raw

\* C3: in the four-analyzer handlers the reported confidence is
\* max(0, min(100, 100 - the four penalties)) for every order of subtraction;
\* four zero penalties report 100 / legitimate, the penalties 30, 25, 20, 25
\* report 0 / fabricated.
C3_ConfidenceIsClampedSum ==
    (Reported /\ handlerKind \in FourAnalyzerKinds) =>
        /\ \A p \in Orders4 : response.confidence = ClampedAfter(p)
        /\ (\A i \in 1..4 : Checks[i].penalty = 0) =>
                response.confidence = 100 /\ response.verdict = Legitimate
        /\ [i \in 1..4 |-> Checks[i].penalty] = <<30, 25, 20, 25>> =>
                response.confidence = 0 /\ response.verdict = Fabricated

\* all four analyzers answered negative
C3_Witness ==
    /\ Reported
    /\ handlerKind \in FourAnalyzerKinds
    /\ [i \in 1..4 |-> Checks[i].penalty] = <<30, 25, 20, 25>>
    /\ \A i \in 1..4 : Checks[i].finding.status = "negative"
    /\ response.confidence = 0

\* every handler runs four checks
ConfiguredChecks(kind) ==
    CASE kind = "placeholder" -> 4
      [] kind = "canvas" -> 4
      [] kind = "sightengine" -> 4

\* C4: every report carries exactly one finding per configured check of its
\* handler, on every path.
C4_OneFindingPerCheck ==
    Reported => Len(response.findings) = ConfiguredChecks(handlerKind)

\* the penalty each analyzer deducts when it is inconclusive
InconclusivePenalty(a) ==
    CASE a = "metadata" -> 0
      [] a = "compression" -> 5
      [] a = "font" -> 5
      [] a = "template" -> 10

Slot(a) ==
    CASE a = "metadata" -> 1
      [] a = "compression" -> 2
      [] a = "font" -> 3
      [] a = "template" -> 4

NoImage(r) == ~r.bodyFile /\ ~r.bodyImage /\ ~r.filesFile

\* C6: a POST that carries no image at all is refused: no analyzer runs, no
\* finding is computed, and the caller gets an error instead of a report.
C6_MissingImageRefused ==
    (pc # "idle" /\ req.method = "POST" /\ NoImage(req)) =>
        /\ invocations = 0
        /\ findings = <<>>
        /\ ~Reported
        /\ pc = "done" => response.status = 500 /\ response.message # ""

KnownNames == {"FanDuel", "DraftKings", "BetMGM", "Caesars"}

\* the finding of the template check is the last one of every report
TemplateFinding == response.findings[Len(response.findings)]

\* C7: the reported sportsbook is the name the template check detected when
\* its finding is positive and "Unknown" otherwise; it is never empty or
\* undefined, and a known name needs a positive template finding.
C7_SportsbookFollowsTemplate ==
    Reported =>
        /\ response.sportsbook \notin {"", Undefined}
        /\ TemplateFinding.status = "positive" =>
              /\ response.sportsbook \in KnownNames
              /\ response.sportsbook = templateCheck.detectedSportsbook
        /\ TemplateFinding.status # "positive" =>
              response.sportsbook = "Unknown"
        /\ response.sportsbook \in KnownNames =>
              TemplateFinding.status = "positive"

\* C8: for every AI-generation score the service supplies, the AI check leaves
\* exactly one finding: above 0.7 negative with 40 deducted, above 0.4 up to
\* 0.7 negative with 25 deducted, up to 0.4 (0 included) positive with nothing
\* deducted.
C8_AiBanding ==
    (handlerKind = "sightengine" /\ pc = "s_quality" /\ data.hasAi) =>
        /\ Len(findings) = 1
        /\ findings[1].category = "AI Detection"
        /\ LET s == data.aiGenerated
               deducted == 100 - legitimacyScore
           IN  /\ s > 70 =>
                     findings[1].status = "negative" /\ deducted = 40
               /\ (40 < s /\ s <= 70) =>
                     findings[1].status = "negative" /\ deducted = 25
               /\ s <= 40 =>
                     findings[1].status = "positive" /\ deducted = 0

\* status and penalty pairs each analyzer may return
Schedule ==
    << {<<"negative", 30>>, <<"neutral", 0>>},
       {<<"negative", 25>>, <<"positive", 0>>, <<"neutral", 5>>},
       {<<"negative", 20>>, <<"positive", 0>>, <<"neutral", 5>>},
       {<<"negative", 25>>, <<"positive", 0>>, <<"neutral", 10>>} >>

\* C9: every analyzer invocation returns exactly one finding, positive,
\* negative or neutral, with a non-negative penalty from that analyzer's
\* schedule; positive findings deduct nothing, negative ones always deduct.
C9_AnalyzerSchedule ==
    /\ handlerKind \in FourAnalyzerKinds => Len(findings) = invocations
    /\ \A i \in 1..4 :
          Checks[i].called =>
              /\ <<Checks[i].finding.status, Checks[i].penalty>> \in Schedule[i]
              /\ Checks[i].finding.status \in {"positive", "negative", "neutral"}
              /\ Checks[i].penalty >= 0
              /\ Checks[i].finding.status = "positive" => Checks[i].penalty = 0
              /\ Checks[i].finding.status = "negative" => Checks[i].penalty # 0
              /\ Len(findings) >= i
              /\ findings[i] = Checks[i].finding

\* a run with a negative, a positive and two inconclusive results
C9_Witness ==
    /\ pc = "done"
    /\ \A i \in 1..4 : Checks[i].called
    /\ <<compressionCheck.finding.status, compressionCheck.penalty>>
            = <<"neutral", 5>>
    /\ <<fontCheck.finding.status, fontCheck.penalty>> = <<"negative", 20>>
    /\ <<templateCheck.finding.status, templateCheck.penalty>>
            = <<"neutral", 10>>
    /\ Len(findings) = 4

Negatives ==
    Cardinality({ i \in 1..Len(response.findings) :
                    response.findings[i].status = "negative" })

\* C10: in a four-analyzer run where no analyzer was inconclusive, the verdict
\* is legitimate exactly when at most one finding is negative; two or more
\* negatives give confidence <= 55, a single one gives 70, 75 or 80.
C10_OneNegativeTolerated ==
    (Reported /\ handlerKind \in FourAnalyzerKinds /\ threw = {}) =>
        /\ response.verdict = Legitimate <=> Negatives <= 1
        /\ Negatives >= 2 =>
              response.confidence <= 55 /\ response.verdict = Fabricated
        /\ Negatives = 1 =>
              response.confidence \in {70, 75, 80}
                  /\ response.verdict = Legitimate

\* the two cheapest negatives together
C10_Witness ==
    /\ Reported
    /\ handlerKind \in FourAnalyzerKinds
    /\ threw = {}
    /\ Negatives = 2
    /\ response.confidence = 55
    /\ response.verdict = Fabricated

====
